---------------------------- MODULE Spec2Model ----------------------------
(***************************************************************************)
(* A model of packages/definitions-parser/src/packages.ts: the registry    *)
(* of typings packages (AllPackages), the per-package version set          *)
(* (TypingsVersions), the two package records (TypingsData,                *)
(* NotNeededPackage) and the scoped-name mangler.                          *)
(*                                                                         *)
(* The registry is immutable once built, so the state is the registry     *)
(* plus the call in progress: pc is "idle" between calls and "done" when   *)
(* a call has produced its result (op, arg, ret).                          *)
(*                                                                         *)
(* Strings are sequences of one-character strings, so that replace,        *)
(* slice, toLowerCase, comparison, formatting and parsing are computed.    *)
(***************************************************************************)
EXTENDS Integers, Sequences, FiniteSets, TLC

VARIABLES data, pc, op, arg, ret

vars == <<data, pc, op, arg, ret>>

---------------------------------------------------------------------------
(* Bounds of the model. *)

\* longest name handed to getMangledNameForScopedPackage on its own
MaxNameLen == 4

\* library versions are major.minor with major in 1..MaxMajor, minor in 0..MaxMinor
MaxMajor == 2

MaxMinor == 1

\* most versions a registry stores, over all of its packages
MaxVersions == 3

\* longest name and libraryName of a not-needed package
MaxRawLen == 1

\* longest asOfVersion of a not-needed package
MaxAsOfLen == 5
\* frames the engine's call stack holds before it gives up
MaxStack == 3

---------------------------------------------------------------------------
(* Strings. *)

\* all strings over alphabet of length 0..n
Strings(alphabet, n) == UNION {[1..k -> alphabet] : k \in 0..n}

\* String.prototype.startsWith
StartsWith(s, prefix) ==
    /\ Len(s) >= Len(prefix)
    /\ SubSeq(s, 1, Len(prefix)) = prefix

\* String.prototype.indexOf for a one-character pattern; 0 when absent
IndexOf(s, c) ==
    IF \E i \in 1..Len(s) : s[i] = c
    THEN CHOOSE i \in 1..Len(s) : s[i] = c /\ \A j \in 1..(i - 1) : s[j] # c
    ELSE 0

\* String.prototype.replace with a string pattern: the first occurrence only
ReplaceFirst(s, c, replacement) ==
    LET i == IndexOf(s, c)
    IN  IF i = 0 THEN s
        ELSE SubSeq(s, 1, i - 1) \o replacement \o SubSeq(s, i + 1, Len(s))

\* number of occurrences of the character c in s
Count(s, c) == Cardinality({i \in 1..Len(s) : s[i] = c})

---------------------------------------------------------------------------
(* Name Mangler. *)

\* a mangler that takes off a leading "@" whether or not a "/" was replaced
MangleAlwaysDropsScope(packageName) ==
    IF StartsWith(packageName, <<"@">>)
    THEN LET replaceSlash == ReplaceFirst(packageName, "/", <<"_", "_">>)
         IN  SubSeq(replaceSlash, 2, Len(replaceSlash))
    ELSE packageName

\* a mangler that replaces the "/" and keeps the leading "@"
MangleKeepsScope(packageName) ==
    IF StartsWith(packageName, <<"@">>)
    THEN ReplaceFirst(packageName, "/", <<"_", "_">>)
    ELSE packageName

getMangledNameForScopedPackage(packageName) ==
    IF StartsWith(packageName, <<"@">>)
    THEN LET replaceSlash == ReplaceFirst(packageName, "/", <<"_", "_">>)
         IN  IF replaceSlash # packageName
             THEN SubSeq(replaceSlash, 2, Len(replaceSlash))
             ELSE packageName
    ELSE packageName

---------------------------------------------------------------------------
(* The outcome of a call: a value, or a thrown error. *)

Returned(value) == [ok |-> TRUE, val |-> value]

Threw(error) == [ok |-> FALSE, err |-> error]

---------------------------------------------------------------------------
(* Numbers in strings, and semver. *)

DigitChars == <<"0", "1", "2", "3", "4", "5", "6", "7", "8", "9">>

IsDigit(c) == \E d \in 1..Len(DigitChars) : DigitChars[d] = c

DigitValue(c) == (CHOOSE d \in 1..Len(DigitChars) : DigitChars[d] = c) - 1

RECURSIVE NumToStr(_)
\* `${n}` for a non-negative integer
NumToStr(n) ==
    IF n < Len(DigitChars)
    THEN <<DigitChars[n + 1]>>
    ELSE NumToStr(n \div Len(DigitChars)) \o <<DigitChars[(n % Len(DigitChars)) + 1]>>

RECURSIVE StrToNum(_)
\* the value of a string of digits
StrToNum(s) ==
    IF Len(s) = 0 THEN 0
    ELSE StrToNum(SubSeq(s, 1, Len(s) - 1)) * Len(DigitChars) + DigitValue(s[Len(s)])

RECURSIVE Split(_, _)
\* String.prototype.split on a one-character separator
Split(s, c) ==
    LET i == IndexOf(s, c)
    IN  IF i = 0 THEN <<s>>
        ELSE <<SubSeq(s, 1, i - 1)>> \o Split(SubSeq(s, i + 1, Len(s)), c)

\* semver's numeric identifier: 0, or digits without a leading zero
NumericIdentifier(s) ==
    /\ Len(s) >= 1
    /\ \A i \in 1..Len(s) : IsDigit(s[i])
    /\ Len(s) > 1 => s[1] # "0"

\* new semver.SemVer(s) for strings of digits and dots: major.minor.patch, or
\* invalid (the constructor throws "Invalid Version")
SemVer(s) ==
    LET parts == Split(s, ".")
    IN  IF Len(parts) = 3 /\ \A i \in 1..3 : NumericIdentifier(parts[i])
        THEN [valid |-> TRUE,
              major |-> StrToNum(parts[1]),
              minor |-> StrToNum(parts[2]),
              patch |-> StrToNum(parts[3])]
        ELSE [valid |-> FALSE]

\* semver.compare: by major, then minor, then patch
compare(a, b) ==
    IF a.major # b.major THEN (IF a.major < b.major THEN -1 ELSE 1)
    ELSE IF a.minor # b.minor THEN (IF a.minor < b.minor THEN -1 ELSE 1)
    ELSE IF a.patch # b.patch THEN (IF a.patch < b.patch THEN -1 ELSE 1)
    ELSE 0

\* semver.rcompare
rcompare(a, b) == compare(b, a)

RECURSIVE SortRcompare(_)
\* versions.sort(semver.rcompare): a stable sort, as the insertion of the last
\* element into the sorted rest, after every element not greater than it
SortRcompare(seq) ==
    IF Len(seq) <= 1 THEN seq
    ELSE LET rest == SortRcompare(SubSeq(seq, 1, Len(seq) - 1))
             x == seq[Len(seq)]
             before == {i \in 1..Len(rest) : rcompare(rest[i], x) <= 0}
             k == IF before = {} THEN 0
                  ELSE CHOOSE i \in before : \A j \in before : j <= i
         IN  SubSeq(rest, 1, k) \o <<x>> \o SubSeq(rest, k + 1, Len(rest))

---------------------------------------------------------------------------
(* Package records. *)

\* JavaScript's undefined
Undefined == [undefined |-> TRUE]

\* the wildcard DependencyVersion "*"
Wildcard == [wildcard |-> TRUE]

\* a DirectoryParsedTypingVersion { major, minor? }: without a minor the record
\* has no minor field
MinorUndefined(version) == "minor" \notin DOMAIN version

\* new TypingsData(data, isLatest)
TypingsData(raw, isLatest) == [data |-> raw, isLatest |-> isLatest]

name(pkg) == pkg.data.typingsPackageName

major(pkg) == pkg.data.libraryMajorVersion

minor(pkg) == pkg.data.libraryMinorVersion

\* PackageBase.id
id(pkg) == [name |-> name(pkg), version |-> [major |-> major(pkg), minor |-> minor(pkg)]]

---------------------------------------------------------------------------
(* Version Set. *)

\* data[key] on an object held as its entries in insertion order
RawGet(raw, key) ==
    IF \E i \in 1..Len(raw) : raw[i].key = key
    THEN raw[CHOOSE i \in 1..Len(raw) : raw[i].key = key].value
    ELSE Undefined

\* Map.prototype.get on a map held as its entries in insertion order
MapGet(map, key) ==
    IF \E i \in 1..Len(map) : map[i].key = key
    THEN map[CHOOSE i \in 1..Len(map) : map[i].key = key].value
    ELSE Undefined

\* a constructor that keeps the keys in the order of the raw object
TypingsVersionsUnsorted(raw) ==
    LET versions == [i \in 1..Len(raw) |-> SemVer(raw[i].key \o <<".", "0">>)]
    IN  [versions |-> versions,
         map |-> [i \in 1..Len(versions) |->
                    [key |-> versions[i],
                     value |-> TypingsData(
                         RawGet(raw, NumToStr(versions[i].major) \o <<".">> \o NumToStr(versions[i].minor)),
                         i = 1)]]]

\* new TypingsVersions(data)
TypingsVersions(raw) ==
    LET versions == SortRcompare([i \in 1..Len(raw) |-> SemVer(raw[i].key \o <<".", "0">>)])
    IN  [versions |-> versions,
         map |-> [i \in 1..Len(versions) |->
                    [key |-> versions[i],
                     value |-> TypingsData(
                         RawGet(raw, NumToStr(versions[i].major) \o <<".">> \o NumToStr(versions[i].minor)),
                         i = 1)]]]

\* TypingsVersions.getAll: the map's values in insertion order
getAll(tv) == [i \in 1..Len(tv.map) |-> tv.map[i].value]

\* TypingsVersions.getLatest
getLatest(tv) ==
    IF Len(tv.versions) = 0 THEN Undefined ELSE MapGet(tv.map, tv.versions[1])

\* whether a stored version satisfies a requested { major, minor? }
Matches(v, version) ==
    /\ v.major = version.major
    /\ (MinorUndefined(version) \/ v.minor = version.minor)

\* a match that looks at the major only
tryGetLatestMatchIgnoringMinor(tv, version) ==
    IF \E i \in 1..Len(tv.versions) : tv.versions[i].major = version.major
    THEN MapGet(tv.map, tv.versions[CHOOSE i \in 1..Len(tv.versions) :
            /\ tv.versions[i].major = version.major
            /\ \A j \in 1..(i - 1) : tv.versions[j].major # version.major])
    ELSE Undefined

\* a match that takes the last (oldest) satisfying version
tryGetLatestMatchOldest(tv, version) ==
    IF \E i \in 1..Len(tv.versions) : Matches(tv.versions[i], version)
    THEN MapGet(tv.map, tv.versions[CHOOSE i \in 1..Len(tv.versions) :
            /\ Matches(tv.versions[i], version)
            /\ \A j \in (i + 1)..Len(tv.versions) : ~Matches(tv.versions[j], version)])
    ELSE Undefined

\* TypingsVersions.tryGetLatestMatch: Array.prototype.find, the first match
tryGetLatestMatch(tv, version) ==
    IF \E i \in 1..Len(tv.versions) : Matches(tv.versions[i], version)
    THEN MapGet(tv.map, tv.versions[CHOOSE i \in 1..Len(tv.versions) :
            /\ Matches(tv.versions[i], version)
            /\ \A j \in 1..(i - 1) : ~Matches(tv.versions[j], version)])
    ELSE Undefined

\* TypingsVersions.getLatestMatch: the record, or the thrown error
getLatestMatch(tv, version) ==
    LET found == tryGetLatestMatch(tv, version)
    IN  IF found = Undefined THEN Threw("Could not find version") ELSE Returned(found)

\* TypingsVersions.get
get(tv, version) ==
    IF version = Wildcard THEN Returned(getLatest(tv)) ELSE getLatestMatch(tv, version)

\* TypingsVersions.tryGet
tryGet(tv, version) ==
    IF version = Wildcard THEN getLatest(tv) ELSE tryGetLatestMatch(tv, version)

---------------------------------------------------------------------------
(* String order. *)

\* the UTF-16 code unit of a character of the model's alphabet
CodeUnit(c) ==
    CASE c = "." -> 46
      [] c = "/" -> 47
      [] IsDigit(c) -> 48 + DigitValue(c)
      [] c = "@" -> 64
      [] c = "A" -> 65
      [] c = "B" -> 66
      [] c = "_" -> 95
      [] c = "a" -> 97
      [] c = "b" -> 98

\* s < t on JavaScript strings: by code units, a proper prefix first
StrLess(s, t) ==
    \E i \in 1..(Len(t)) :
        /\ \A j \in 1..(i - 1) : j <= Len(s) /\ s[j] = t[j]
        /\ Len(s) >= i - 1
        /\ (Len(s) = i - 1 \/ CodeUnit(s[i]) < CodeUnit(t[i]))

\* assertSorted(a, t => t.name) of @definitelytyped/utils: the array itself
\* when every name is >= the one before it, an assertion failure otherwise
assertSorted(a) ==
    IF \E i \in 2..Len(a) : StrLess(a[i].data.typingsPackageName, a[i - 1].data.typingsPackageName)
    THEN Threw("AssertionError")
    ELSE Returned(a)

\* unique(arr) of @definitelytyped/utils: the first occurrence of each element
unique(arr) ==
    LET firsts == {i \in 1..Len(arr) : \A j \in 1..(i - 1) : arr[j] # arr[i]}
        nth[k \in 0..Len(arr)] ==
            IF k = 0 THEN 0
            ELSE IF \E i \in firsts : i > nth[k - 1]
                 THEN CHOOSE i \in firsts : i > nth[k - 1] /\ \A j \in firsts : j > nth[k - 1] => i <= j
                 ELSE 0
    IN  [k \in 1..Cardinality(firsts) |-> arr[nth[k]]]

---------------------------------------------------------------------------
(* Registry: AllPackages over its data map, held as entries in insertion *)
(* order, each a mangled name and its TypingsVersions.                    *)

\* AllPackages.from: mapValues over the entries of the data file
from(file) == [i \in 1..Len(file) |-> [key |-> file[i].key, value |-> TypingsVersions(file[i].value)]]

\* AllPackages.hasSeparateMinorVersions
hasSeparateMinorVersions(reg, packageName) ==
    LET found == MapGet(reg, getMangledNameForScopedPackage(packageName))
    IN  IF found = Undefined THEN Threw("assertDefined")
        ELSE LET versions == getAll(found)
                 minors == [i \in 1..Len(versions) |-> minor(versions[i])]
             IN  Returned(Len(minors) # Len(unique(minors)))

\* a tryResolve that looks the name up as written
tryResolveUnmangled(reg, dep) ==
    LET versions == MapGet(reg, dep.name)
        found == IF versions = Undefined THEN Undefined ELSE tryGet(versions, dep.version)
    IN  IF found = Undefined THEN dep ELSE id(found)

\* AllPackages.tryResolve
tryResolve(reg, dep) ==
    LET versions == MapGet(reg, getMangledNameForScopedPackage(dep.name))
        found == IF versions = Undefined THEN Undefined ELSE tryGet(versions, dep.version)
    IN  IF found = Undefined THEN dep ELSE id(found)

\* AllPackages.resolve
resolve(reg, dep) ==
    LET versions == MapGet(reg, getMangledNameForScopedPackage(dep.name))
    IN  IF versions = Undefined THEN Threw("No typings found with name")
        ELSE LET got == get(versions, dep.version)
             IN  IF ~got.ok THEN got
                 ELSE IF got.val = Undefined THEN Threw("TypeError")
                 ELSE Returned(id(got.val))

\* AllPackages.tryGetTypingsData
tryGetTypingsData(reg, dep) ==
    LET versions == MapGet(reg, getMangledNameForScopedPackage(dep.name))
    IN  IF versions = Undefined THEN Undefined ELSE tryGet(versions, dep.version)

\* AllPackages.getTypingsData
getTypingsData(reg, dep) ==
    LET pkg == tryGetTypingsData(reg, dep)
    IN  IF pkg = Undefined THEN Threw("No typings available") ELSE Returned(pkg)

\* AllPackages.tryGetLatestVersion
tryGetLatestVersion(reg, packageName) ==
    LET versions == MapGet(reg, getMangledNameForScopedPackage(packageName))
    IN  IF versions = Undefined THEN Undefined ELSE getLatest(versions)

\* AllPackages.getLatestVersion
getLatestVersion(reg, packageName) ==
    LET latest == tryGetLatestVersion(reg, packageName)
    IN  IF latest = Undefined THEN Threw("No such package") ELSE Returned(latest)

\* a getLatest that hands back the record it was given
getLatestPackageSame(reg, pkg) == Returned(pkg)

\* AllPackages.getLatest (of a record; TypingsVersions has a getLatest too)
getLatestPackage(reg, pkg) ==
    IF pkg.isLatest THEN Returned(pkg) ELSE getLatestVersion(reg, name(pkg))

RECURSIVE flattenLatestOnly(_)
\* a flatten that yields the latest record of each Version Set only
flattenLatestOnly(reg) ==
    IF Len(reg) = 0 THEN <<>>
    ELSE <<getLatest(reg[1].value)>> \o flattenLatestOnly(Tail(reg))

RECURSIVE flattenData(_)
\* flattenData: every Version Set's records, set after set
flattenData(reg) ==
    IF Len(reg) = 0 THEN <<>>
    ELSE getAll(reg[1].value) \o flattenData(Tail(reg))

\* AllPackages.allTypings
allTypings(reg) == assertSorted(flattenData(reg))

\* AllPackages.allLatestTypings
allLatestTypings(reg) == assertSorted([i \in 1..Len(reg) |-> getLatest(reg[i].value)])

\* what the generator has produced so far: the records yielded, and whether
\* it is still running (ok) or has thrown (err)
Yielded(recs) == [ok |-> TRUE, val |-> recs]

RECURSIVE yieldDependencies(_, _, _)
\* the loop over Object.entries(pkg.dependencies)
yieldDependencies(reg, entries, sofar) ==
    IF Len(entries) = 0 \/ ~sofar.ok THEN sofar
    ELSE LET versions == MapGet(reg, getMangledNameForScopedPackage(entries[1].key))
             got == get(versions, entries[1].value)
         IN  yieldDependencies(reg, Tail(entries),
                IF versions = Undefined THEN sofar
                ELSE IF got.ok THEN Yielded(Append(sofar.val, got.val))
                ELSE [ok |-> FALSE, err |-> got.err, val |-> sofar.val])

RECURSIVE yieldTestDependencies(_, _, _, _)
\* the loop over pkg.testDependencies
yieldTestDependencies(reg, pkg, names, sofar) ==
    IF Len(names) = 0 \/ ~sofar.ok THEN sofar
    ELSE LET versions == MapGet(reg, getMangledNameForScopedPackage(names[1]))
             version == RawGet(pkg.data.pathMappings, names[1])
             got == IF version # Undefined THEN get(versions, version)
                    ELSE Returned(getLatest(versions))
         IN  yieldTestDependencies(reg, pkg, Tail(names),
                IF versions = Undefined THEN sofar
                ELSE IF got.ok THEN Yielded(Append(sofar.val, got.val))
                ELSE [ok |-> FALSE, err |-> got.err, val |-> sofar.val])

\* a generator that walks the test dependencies before the dependencies
allDependencyTypingsTestsFirst(reg, pkg) ==
    yieldDependencies(reg, pkg.data.dependencies,
        yieldTestDependencies(reg, pkg, pkg.data.testDependencies, Yielded(<<>>)))

\* AllPackages.allDependencyTypings, run to its end
allDependencyTypings(reg, pkg) ==
    yieldTestDependencies(reg, pkg, pkg.data.testDependencies,
        yieldDependencies(reg, pkg.data.dependencies, Yielded(<<>>)))

---------------------------------------------------------------------------
(* NotNeededPackage. *)

\* String.prototype.toLowerCase on the model's alphabet
toLowerCase(s) ==
    [i \in 1..Len(s) |-> CASE s[i] = "A" -> "a" [] s[i] = "B" -> "b" [] OTHER -> s[i]]

\* new NotNeededPackage(name, libraryName, asOfVersion): the assertion, then
\* the parse of the version
NotNeededPackage(packageName, libraryName, asOfVersion) ==
    IF ~(Len(libraryName) > 0 /\ Len(packageName) > 0 /\ Len(asOfVersion) > 0)
    THEN Threw("AssertionError")
    ELSE IF ~SemVer(asOfVersion).valid
    THEN Threw("Invalid Version")
    ELSE Returned([name |-> packageName,
                   libraryName |-> libraryName,
                   version |-> SemVer(asOfVersion)])

\* a fromRaw that looks at the keys before it looks at the name
fromRawKeysFirst(packageName, raw) ==
    IF \E i \in 1..Len(raw.keys) : raw.keys[i] \notin {"libraryName", "sourceRepoURL", "asOfVersion"}
    THEN Threw("Unexpected key in not-needed package")
    ELSE IF packageName # toLowerCase(packageName)
    THEN Threw("must use all lower-case letters")
    ELSE IF raw.libraryName # toLowerCase(raw.libraryName)
    THEN Threw("must use a libraryName that is all lower-case letters")
    ELSE NotNeededPackage(packageName, raw.libraryName, raw.asOfVersion)

\* NotNeededPackage.fromRaw; raw is held as its keys (Object.keys) and the
\* values of its two string properties
fromRaw(packageName, raw) ==
    IF packageName # toLowerCase(packageName)
    THEN Threw("must use all lower-case letters")
    ELSE IF \E i \in 1..Len(raw.keys) : raw.keys[i] \notin {"libraryName", "sourceRepoURL", "asOfVersion"}
    THEN Threw("Unexpected key in not-needed package")
    ELSE IF raw.libraryName # toLowerCase(raw.libraryName)
    THEN Threw("must use a libraryName that is all lower-case letters")
    ELSE NotNeededPackage(packageName, raw.libraryName, raw.asOfVersion)

\* NotNeededPackage.name: the constructor's readonly parameter property
notNeededName(pkg) == Returned(pkg.name)

\* PackageBase.libraryName, set by the base constructor
libraryNameOf(pkg) == Returned(pkg.libraryName)

\* NotNeededPackage.major
notNeededMajor(pkg) == Returned(pkg.version.major)

\* NotNeededPackage.minor
notNeededMinor(pkg) == Returned(pkg.version.minor)

\* NotNeededPackage.isLatest
isLatest(pkg) == Returned(TRUE)

\* NotNeededPackage.declaredModules
declaredModules(pkg) == Returned(<<>>)

RECURSIVE globalsFrame(_, _)
\* one evaluation of the globals getter with depth frames on the stack: its
\* body reads this.globals, which is the getter again; the engine throws a
\* RangeError when the stack is full
globalsFrame(pkg, depth) ==
    IF depth > MaxStack
    THEN Threw("RangeError: Maximum call stack size exceeded")
    ELSE globalsFrame(pkg, depth + 1)

\* NotNeededPackage.globals
globals(pkg) == globalsFrame(pkg, 1)

\* NotNeededPackage.minTypeScriptVersion
minTypeScriptVersion(pkg) == Returned("TypeScriptVersion.lowest")

\* PackageBase.id of a NotNeededPackage
notNeededId(pkg) ==
    Returned([name |-> pkg.name,
              version |-> [major |-> pkg.version.major, minor |-> pkg.version.minor]])

---------------------------------------------------------------------------
(* Calls. *)

NoRet == [ok |-> TRUE, val |-> <<>>]

\* the caller takes the result; the registry is unchanged
Return ==
    /\ pc = "done"
    /\ pc' = "idle"
    /\ op' = "none"
    /\ arg' = <<>>
    /\ ret' = NoRet
    /\ UNCHANGED data

Finish(operation, argument, result) ==
    /\ pc' = "done"
    /\ op' = operation
    /\ arg' = argument
    /\ ret' = result
    /\ UNCHANGED data

---------------------------------------------------------------------------
(* The data file: what parse-definitions writes for a package. Each version *)
(* is stored under the key `${libraryMajorVersion}.${libraryMinorVersion}`; *)
(* the newest version lives in the package's root directory and has no      *)
(* libraryVersionDirectoryName, an older one lives in a directory named by  *)
(* its major ("2") or its major and minor ("2.1").                          *)

Majors == 1..MaxMajor

Minors == 0..MaxMinor

Pairs == Majors \X Minors

PairLess(p, q) == p[1] < q[1] \/ (p[1] = q[1] /\ p[2] < q[2])

\* the sequences of 1..n distinct elements of S
InjectiveSeqs(S, n) ==
    {q \in UNION {[1..k -> S] : k \in 1..n} :
        \A i, j \in 1..Len(q) : i # j => q[i] # q[j]}

\* formatTypingVersion of the directory's version
DirectoryName(pair, withMinor) ==
    IF withMinor
    THEN [chars |-> NumToStr(pair[1]) \o <<".">> \o NumToStr(pair[2])]
    ELSE [chars |-> NumToStr(pair[1])]

\* per version, whether its directory name carries the minor: no entry for the
\* newest, and no two directories of one name
DirectoryForms(pairs) ==
    {f \in [1..Len(pairs) -> BOOLEAN] :
        /\ \A i \in 1..Len(pairs) : (\A j \in 1..Len(pairs) : ~PairLess(pairs[i], pairs[j])) => ~f[i]
        /\ \A i, j \in 1..Len(pairs) :
              (i # j /\ PairLess(pairs[i], pairs[j]) /\ \E k \in 1..Len(pairs) : PairLess(pairs[j], pairs[k]))
                  => DirectoryName(pairs[i], f[i]) # DirectoryName(pairs[j], f[j])}

\* the usual layout: the minor is in the name when another version has the major
UsualForms(pairs) ==
    [i \in 1..Len(pairs) |->
        /\ \E j \in 1..Len(pairs) : PairLess(pairs[i], pairs[j])
        /\ \E j \in 1..Len(pairs) : j # i /\ pairs[j][1] = pairs[i][1]]

\* one TypingsDataRaw
RawRecord(packageName, pair, directory, dependencies, testDependencies, pathMappings) ==
    [typingsPackageName |-> packageName,
     libraryMajorVersion |-> pair[1],
     libraryMinorVersion |-> pair[2],
     libraryVersionDirectoryName |-> directory,
     dependencies |-> dependencies,
     testDependencies |-> testDependencies,
     pathMappings |-> pathMappings]

\* one TypingsVersionsRaw, its keys in the order of pairs
RawVersions(packageName, pairs, forms) ==
    [i \in 1..Len(pairs) |->
        [key |-> NumToStr(pairs[i][1]) \o <<".">> \o NumToStr(pairs[i][2]),
         value |-> RawRecord(packageName, pairs[i],
                     IF \A j \in 1..Len(pairs) : ~PairLess(pairs[i], pairs[j])
                     THEN Undefined ELSE DirectoryName(pairs[i], forms[i]),
                     <<>>, <<>>, <<>>)]]

\* names of the model: two registry keys, the scoped spelling of one, a stranger
NameA == <<"a">>

NameAB == <<"a", "_", "_", "b">>

ScopedAB == <<"@", "a", "/", "b">>

NameB == <<"b">>

KeyNames == {NameA, NameAB}

QueryNames == {NameA, NameAB, ScopedAB, NameB}

\* every DependencyVersion over the model's versions
DirectoryVersions ==
    {[major |-> m] : m \in Majors} \cup {[major |-> p[1], minor |-> p[2]] : p \in Pairs}

DependencyVersions == {Wildcard} \cup DirectoryVersions

---------------------------------------------------------------------------
(* One package: a registry of a single package, every Version Set of up to *)
(* MaxVersions versions, and the Version Set's queries.                     *)

TheVersions == data[1].value

GetLatest ==
    /\ pc = "idle"
    /\ Finish("getLatest", <<>>, Returned(getLatest(TheVersions)))

Get ==
    /\ pc = "idle"
    /\ \E version \in DependencyVersions :
          Finish("get", version, get(TheVersions, version))

TryGet ==
    /\ pc = "idle"
    /\ \E version \in DependencyVersions :
          Finish("tryGet", version, Returned(tryGet(TheVersions, version)))

HasSeparateMinorVersions ==
    /\ pc = "idle"
    /\ \E packageName \in QueryNames :
          Finish("hasSeparateMinorVersions", packageName, hasSeparateMinorVersions(data, packageName))

InitPackage ==
    /\ data \in {from(<<[key |-> k, value |-> RawVersions(k, pairs, forms)]>>) :
                    <<k, pairs, forms>> \in
                        {<<k, pairs, forms>> \in KeyNames \X InjectiveSeqs(Pairs, MaxVersions)
                                                \X [1..MaxVersions -> BOOLEAN] :
                            [i \in 1..Len(pairs) |-> forms[i]] \in DirectoryForms(pairs)
                            /\ \A i \in (Len(pairs) + 1)..MaxVersions : ~forms[i]}}
    /\ pc = "idle"
    /\ op = "none"
    /\ arg = <<>>
    /\ ret = NoRet

NextPackage ==
    \/ GetLatest
    \/ Get
    \/ TryGet
    \/ HasSeparateMinorVersions
    \/ Return

SpecPackage == InitPackage /\ [][NextPackage]_vars

\* a record's own version, as its accessors give it
PairOf(pkg) == <<major(pkg), minor(pkg)>>

\* whether a record satisfies a requested { major, minor? }
Satisfies(pkg, version) ==
    /\ major(pkg) = version.major
    /\ (MinorUndefined(version) \/ minor(pkg) = version.minor)

\* C1: in every Version Set the records are held newest to oldest by their
\* (major, minor); exactly one record has isLatest, the one at index 0; and
\* getLatest() returns that record, whose (major, minor) is the maximal one.
C1_LatestFirst ==
    /\ \A e \in 1..Len(data) :
          LET recs == getAll(data[e].value)
          IN  /\ \A i, j \in 1..Len(recs) : i < j => PairLess(PairOf(recs[j]), PairOf(recs[i]))
              /\ {i \in 1..Len(recs) : recs[i].isLatest} = {1}
    /\ (pc = "done" /\ op = "getLatest") =>
          LET recs == getAll(TheVersions)
          IN  /\ ret.ok
              /\ ret.val = recs[1]
              /\ ret.val.isLatest
              /\ \A i \in 1..Len(recs) : ~PairLess(PairOf(ret.val), PairOf(recs[i]))

\* getLatest() has answered on a Version Set of three versions, two of one major
C1_Witness ==
    /\ pc = "done"
    /\ op = "getLatest"
    /\ Len(getAll(TheVersions)) >= 3
    /\ \E i, j \in 1..Len(getAll(TheVersions)) :
          i # j /\ major(getAll(TheVersions)[i]) = major(getAll(TheVersions)[j])
    /\ ret.val = getAll(TheVersions)[1]

\* C2: get and tryGet return getLatest() for the wildcard, and otherwise the
\* first record, newest first, whose major is the requested major and whose
\* minor is the requested minor or any minor when none is requested; a
\* major-only request thus returns the highest minor of that major. Without
\* such a record get fails and tryGet returns undefined.
C2_FirstMatch ==
    (pc = "done" /\ op \in {"get", "tryGet"}) =>
        LET recs == getAll(TheVersions)
            hits == {i \in 1..Len(recs) : Satisfies(recs[i], arg)}
        IN  IF arg = Wildcard
            THEN ret.ok /\ ret.val = getLatest(TheVersions) /\ ret.val = recs[1]
            ELSE IF hits = {}
            THEN IF op = "get" THEN ~ret.ok ELSE ret.ok /\ ret.val = Undefined
            ELSE /\ ret.ok
                 /\ \E i \in hits : ret.val = recs[i] /\ \A j \in hits : i <= j
                 /\ MinorUndefined(arg) =>
                        \A j \in 1..Len(recs) :
                            major(recs[j]) = arg.major => minor(recs[j]) <= minor(ret.val)

\* a major-only get has answered on a Version Set with two minors of that major
C2_Witness ==
    /\ pc = "done"
    /\ op = "get"
    /\ arg # Wildcard
    /\ MinorUndefined(arg)
    /\ Cardinality({i \in 1..Len(getAll(TheVersions)) : major(getAll(TheVersions)[i]) = arg.major}) >= 2
    /\ ret.ok

\* whether two records share a minor
SharesMinor(recs) == \E i, j \in 1..Len(recs) : i # j /\ minor(recs[i]) = minor(recs[j])

\* whether the package keeps a directory named by major and minor
TracksMinorDirectories(recs) ==
    \E i \in 1..Len(recs) :
        /\ recs[i].data.libraryVersionDirectoryName # Undefined
        /\ Count(recs[i].data.libraryVersionDirectoryName.chars, ".") >= 1

\* C10 as stated: hasSeparateMinorVersions(name) fails when the mangled name has
\* no Version Set, and otherwise is true exactly when two records share a
\* minor, which is exactly when the package keeps minor-versioned directories.
C10_AsStated ==
    (pc = "done" /\ op = "hasSeparateMinorVersions") =>
        LET key == getMangledNameForScopedPackage(arg)
        IN  IF \A e \in 1..Len(data) : data[e].key # key
            THEN ~ret.ok
            ELSE LET recs == getAll(MapGet(data, key))
                 IN  /\ ret.ok
                     /\ ret.val = SharesMinor(recs)
                     /\ ret.val = TracksMinorDirectories(recs)

---------------------------------------------------------------------------
(* The registry: one or two packages in either order of their names, up to *)
(* MaxVersions versions between them, and the registry's queries.          *)

RECURSIVE Ascending(_)
\* the pairs of a set, oldest first
Ascending(S) ==
    IF S = {} THEN <<>>
    ELSE LET least == CHOOSE p \in S : \A q \in S : ~PairLess(q, p)
         IN  <<least>> \o Ascending(S \ {least})

\* the registry's packages use the lowest and the highest minor
RegistryPairs == Majors \X {0, MaxMinor}

PairSets(n) == {S \in SUBSET RegistryPairs : Cardinality(S) \in 1..n}

FileEntry(k, S) == [key |-> k, value |-> RawVersions(k, Ascending(S), UsualForms(Ascending(S)))]

DataFiles ==
    {<<FileEntry(k, S)>> : k \in KeyNames, S \in PairSets(MaxVersions)}
    \cup UNION {UNION {{<<FileEntry(k1, S1), FileEntry(k2, S2)>> :
                            S2 \in PairSets(MaxVersions - Cardinality(S1))} :
                        S1 \in PairSets(MaxVersions - 1)} :
                    <<k1, k2>> \in {kk \in KeyNames \X KeyNames : kk[1] # kk[2]}}

RegistryVersions ==
    {Wildcard} \cup {[major |-> m] : m \in Majors}
               \cup {[major |-> p[1], minor |-> p[2]] : p \in RegistryPairs}

\* the ids asked for: a plain name, a scoped one, and one no registry holds
Ids == {[name |-> n, version |-> v] : n \in {NameA, ScopedAB, NameB}, v \in RegistryVersions}

Resolve ==
    /\ pc = "idle"
    /\ \E dep \in Ids : Finish("resolve", dep, resolve(data, dep))

TryResolve ==
    /\ pc = "idle"
    /\ \E dep \in Ids : Finish("tryResolve", dep, Returned(tryResolve(data, dep)))

GetTypingsData ==
    /\ pc = "idle"
    /\ \E dep \in Ids : Finish("getTypingsData", dep, getTypingsData(data, dep))

TryGetTypingsData ==
    /\ pc = "idle"
    /\ \E dep \in Ids : Finish("tryGetTypingsData", dep, Returned(tryGetTypingsData(data, dep)))

AllTypings ==
    /\ pc = "idle"
    /\ Finish("allTypings", <<>>, allTypings(data))

AllLatestTypings ==
    /\ pc = "idle"
    /\ Finish("allLatestTypings", <<>>, allLatestTypings(data))

\* the versions used where a package declares two dependencies
SomeVersions == {Wildcard, [major |-> 1], [major |-> MaxMajor, minor |-> 0]}

DependencyNames == {NameA, ScopedAB}

DependencyEntries(versions) ==
    {[key |-> n, value |-> v] : n \in DependencyNames, v \in versions}

\* a test dependency, with the version its path mapping gives it, if any
TestEntries(versions) ==
    {[key |-> n, value |-> v] : n \in DependencyNames, v \in {Undefined} \cup (versions \ {Wildcard})}

\* the package b 1.0 with the given dependencies and test dependencies
Dependent(dependencies, tests) ==
    LET Mapped(t) == t.value # Undefined
    IN  TypingsData(
            RawRecord(NameB, <<1, 0>>, Undefined,
                      dependencies,
                      [i \in 1..Len(tests) |-> tests[i].key],
                      SelectSeq(tests, Mapped)),
            TRUE)

\* packages with up to two dependencies and test dependencies between them,
\* no name declared twice
Dependents ==
    {Dependent(<<>>, <<>>)}
    \cup {Dependent(<<d>>, <<>>) : d \in DependencyEntries(RegistryVersions)}
    \cup {Dependent(<<>>, <<t>>) : t \in TestEntries(RegistryVersions)}
    \cup {Dependent(<<dt[1], dt[2]>>, <<>>) :
            dt \in {x \in DependencyEntries(SomeVersions) \X DependencyEntries(SomeVersions) :
                        x[1].key # x[2].key}}
    \cup {Dependent(<<>>, <<dt[1], dt[2]>>) :
            dt \in {x \in TestEntries(SomeVersions) \X TestEntries(SomeVersions) :
                        x[1].key # x[2].key}}
    \cup {Dependent(<<dt[1]>>, <<dt[2]>>) :
            dt \in {x \in DependencyEntries(SomeVersions) \X TestEntries(SomeVersions) :
                        x[1].key # x[2].key}}

AllDependencyTypings ==
    /\ pc = "idle"
    /\ \E pkg \in Dependents :
          Finish("allDependencyTypings", pkg, allDependencyTypings(data, pkg))

\* records of other registries: one of each name, latest or not
Strangers ==
    {TypingsData(RawRecord(n, <<1, 0>>, Undefined, <<>>, <<>>, <<>>), latest) :
        n \in {NameA, ScopedAB, NameB}, latest \in BOOLEAN}

\* getLatest of a record of this registry or of another
GetLatestPackage ==
    /\ pc = "idle"
    /\ \E pkg \in {flattenData(data)[i] : i \in 1..Len(flattenData(data))} \cup Strangers :
          Finish("getLatest", pkg, getLatestPackage(data, pkg))

Init ==
    /\ data \in {from(file) : file \in DataFiles}
    /\ pc = "idle"
    /\ op = "none"
    /\ arg = <<>>
    /\ ret = NoRet

Next ==
    \/ Resolve
    \/ TryResolve
    \/ GetTypingsData
    \/ TryGetTypingsData
    \/ HasSeparateMinorVersions
    \/ AllTypings
    \/ AllLatestTypings
    \/ AllDependencyTypings
    \/ GetLatestPackage
    \/ Return

Spec == Init /\ [][Next]_vars

\* the Version Set stored for a name as a caller writes it, or undefined
VersionsOf(packageName) == MapGet(data, getMangledNameForScopedPackage(packageName))

\* the record a request selects among recs (newest first), or undefined
Selected(recs, version) ==
    IF version = Wildcard THEN recs[1]
    ELSE IF \E i \in 1..Len(recs) : Satisfies(recs[i], version)
    THEN recs[CHOOSE i \in 1..Len(recs) :
            Satisfies(recs[i], version) /\ \A j \in 1..(i - 1) : ~Satisfies(recs[j], version)]
    ELSE Undefined

\* C3: for a (major, minor) present in the Version Set of a name,
\* getTypingsData returns the record whose own major and minor are that pair,
\* and resolve returns that record's id, whose version is {major, minor}.
C3_ExactVersion ==
    (/\ pc = "done"
     /\ op \in {"resolve", "getTypingsData"}
     /\ arg.version # Wildcard
     /\ ~MinorUndefined(arg.version)
     /\ VersionsOf(arg.name) # Undefined
     /\ \E i \in 1..Len(getAll(VersionsOf(arg.name))) :
            PairOf(getAll(VersionsOf(arg.name))[i]) = <<arg.version.major, arg.version.minor>>)
    => /\ ret.ok
       /\ op = "getTypingsData" =>
            /\ PairOf(ret.val) = <<arg.version.major, arg.version.minor>>
            /\ \E i \in 1..Len(getAll(VersionsOf(arg.name))) : ret.val = getAll(VersionsOf(arg.name))[i]
       /\ op = "resolve" =>
            ret.val.version = [major |-> arg.version.major, minor |-> arg.version.minor]

\* resolve has answered for a scoped name and an older minor of a major that
\* has a newer minor too
C3_Witness ==
    /\ pc = "done"
    /\ op = "resolve"
    /\ arg.name = ScopedAB
    /\ arg.version # Wildcard
    /\ ~MinorUndefined(arg.version)
    /\ VersionsOf(arg.name) # Undefined
    /\ \E i \in 1..Len(getAll(VersionsOf(arg.name))) :
          /\ major(getAll(VersionsOf(arg.name))[i]) = arg.version.major
          /\ minor(getAll(VersionsOf(arg.name))[i]) > arg.version.minor
    /\ ret.ok
    /\ ret.val.version = [major |-> arg.version.major, minor |-> arg.version.minor]

\* C4: tryResolve and tryGetTypingsData never fail. When the mangled name has
\* no Version Set or no record matches the version, tryResolve returns the id
\* it was given, tryGetTypingsData returns undefined, and resolve and
\* getTypingsData fail; when a record matches, resolve and tryResolve return
\* that record's id and getTypingsData and tryGetTypingsData return the record.
C4_TryAndFail ==
    (pc = "done" /\ op \in {"resolve", "tryResolve", "getTypingsData", "tryGetTypingsData"}) =>
        LET stored == \E e \in 1..Len(data) : data[e].key = getMangledNameForScopedPackage(arg.name)
            match == IF stored THEN Selected(getAll(VersionsOf(arg.name)), arg.version) ELSE Undefined
        IN  /\ op \in {"tryResolve", "tryGetTypingsData"} => ret.ok
            /\ match = Undefined =>
                  /\ op = "tryResolve" => ret.val = arg
                  /\ op = "tryGetTypingsData" => ret.val = Undefined
                  /\ op \in {"resolve", "getTypingsData"} => ~ret.ok
            /\ match # Undefined =>
                  /\ ret.ok
                  /\ op \in {"resolve", "tryResolve"} =>
                        ret.val = [name |-> match.data.typingsPackageName,
                                   version |-> [major |-> match.data.libraryMajorVersion,
                                                minor |-> match.data.libraryMinorVersion]]
                  /\ op \in {"getTypingsData", "tryGetTypingsData"} => ret.val = match

\* tryResolve has handed back a scoped id whose package is stored under the
\* mangled name but has no record of the requested version
C4_Witness ==
    /\ pc = "done"
    /\ op = "tryResolve"
    /\ arg.name = ScopedAB
    /\ VersionsOf(arg.name) # Undefined
    /\ Selected(getAll(VersionsOf(arg.name)), arg.version) = Undefined
    /\ ret.val = arg

\* whether the names of a list of records never decrease
SortedByName(recs) ==
    \A i \in 2..Len(recs) : ~StrLess(name(recs[i]), name(recs[i - 1]))

\* the places of the registry's records: <<entry, index in the Version Set>>
Places == UNION {{<<e, i>> : i \in 1..Len(getAll(data[e].value))} : e \in 1..Len(data)}

RecordAt(place) == getAll(data[place[1]].value)[place[2]]

\* whether the registry's entries are stored in the order of their records' names
StoredSorted ==
    \A p, q \in Places : p[1] < q[1] => ~StrLess(name(RecordAt(q)), name(RecordAt(p)))

\* C7: allTypings() returns every record of every Version Set and
\* allLatestTypings() returns one record per package, its latest; a returned
\* result is sorted by name, in the stored order; and when the stored order is
\* not sorted by name the call fails.
C7_AllSorted ==
    /\ (pc = "done" /\ op = "allTypings") =>
          IF StoredSorted
          THEN /\ ret.ok
               /\ SortedByName(ret.val)
               /\ Len(ret.val) = Cardinality(Places)
               /\ \E f \in [Places -> 1..Len(ret.val)] :
                     /\ \A p \in Places : ret.val[f[p]] = RecordAt(p)
                     /\ \A p, q \in Places : p # q => f[p] # f[q]
                     /\ \A p, q \in Places :
                           (p[1] < q[1] \/ (p[1] = q[1] /\ p[2] < q[2])) => f[p] < f[q]
          ELSE ~ret.ok
    /\ (pc = "done" /\ op = "allLatestTypings") =>
          IF StoredSorted
          THEN /\ ret.ok
               /\ SortedByName(ret.val)
               /\ Len(ret.val) = Len(data)
               /\ \A e \in 1..Len(data) :
                     /\ ret.val[e].isLatest
                     /\ ret.val[e] = RecordAt(<<e, 1>>)
          ELSE ~ret.ok

\* allTypings() has returned the records of two packages, one with an older
\* version beside its latest
C7_Witness ==
    /\ pc = "done"
    /\ op = "allTypings"
    /\ Len(data) = 2
    /\ ret.ok
    /\ Len(ret.val) > Len(data)

\* the dependencies of pkg and then its test dependencies, each with the
\* version it is to be resolved at: the declared one, the path mapping's, or
\* the wildcard (the latest)
Declared(pkg) ==
    [i \in 1..Len(pkg.data.dependencies) |->
        [name |-> pkg.data.dependencies[i].key, version |-> pkg.data.dependencies[i].value]]
    \o [i \in 1..Len(pkg.data.testDependencies) |->
        [name |-> pkg.data.testDependencies[i],
         version |-> IF \E m \in 1..Len(pkg.data.pathMappings) :
                            pkg.data.pathMappings[m].key = pkg.data.testDependencies[i]
                     THEN pkg.data.pathMappings[CHOOSE m \in 1..Len(pkg.data.pathMappings) :
                            pkg.data.pathMappings[m].key = pkg.data.testDependencies[i]].value
                     ELSE Wildcard]]

\* those of Declared(pkg) whose name has a Version Set, each with the record
\* its version selects (undefined when none matches)
Wanted(pkg) ==
    LET Stored(d) == VersionsOf(d.name) # Undefined
        kept == SelectSeq(Declared(pkg), Stored)
    IN  [i \in 1..Len(kept) |-> Selected(getAll(VersionsOf(kept[i].name)), kept[i].version)]

\* C8 as stated: allDependencyTypings(pkg) produces one resolved record for each
\* declared dependency and then for each test dependency, in declaration
\* order, skipping the names without a Version Set, and nothing else.
C8_AsStated ==
    (pc = "done" /\ op = "allDependencyTypings") =>
        /\ ret.ok
        /\ ret.val = Wanted(arg)
        /\ \A i \in 1..Len(ret.val) : ret.val[i] # Undefined

\* C8 as amended: the same, provided every dependency and every path-mapped
\* test dependency whose name has a Version Set has a record matching its
\* version; otherwise the sequence fails at the first one that has none, after
\* producing the records of those before it.
C8_DependencyOrder ==
    (pc = "done" /\ op = "allDependencyTypings") =>
        LET wanted == Wanted(arg)
            missing == {i \in 1..Len(wanted) : wanted[i] = Undefined}
        IN  IF missing = {}
            THEN ret.ok /\ ret.val = wanted
            ELSE /\ ~ret.ok
                 /\ \E k \in missing :
                       /\ \A j \in missing : k <= j
                       /\ ret.val = SubSeq(wanted, 1, k - 1)

\* a dependency at a major and then a test dependency without a path mapping
\* have been resolved, to an older record and to a latest one
C8_Witness ==
    /\ pc = "done"
    /\ op = "allDependencyTypings"
    /\ Len(arg.data.dependencies) = 1
    /\ Len(arg.data.testDependencies) = 1
    /\ Len(arg.data.pathMappings) = 0
    /\ arg.data.dependencies[1].value # Wildcard
    /\ ret.ok
    /\ Len(ret.val) = 2
    /\ ~ret.val[1].isLatest
    /\ ret.val[2].isLatest

\* C11 as stated: getLatest(record) returns the record itself when it is
\* latest and else the latest record of the Version Set of its name, every
\* record returned being latest, and fails if the record's name is unknown to
\* the registry.
C11_AsStated ==
    (pc = "done" /\ op = "getLatest") =>
        IF VersionsOf(name(arg)) = Undefined
        THEN ~ret.ok
        ELSE /\ ret.ok
             /\ ret.val.isLatest
             /\ ret.val = IF arg.isLatest THEN arg ELSE getAll(VersionsOf(name(arg)))[1]

\* C11: getLatest(record) returns the record itself when it is latest, whether
\* or not the registry knows its name; for a record that is not latest it
\* returns the newest record of the Version Set of the record's mangled name,
\* which is latest, and fails when the registry has no such Version Set.
C11_Latest ==
    (pc = "done" /\ op = "getLatest") =>
        IF arg.isLatest
        THEN ret.ok /\ ret.val = arg
        ELSE IF VersionsOf(name(arg)) = Undefined
        THEN ~ret.ok /\ ret.err = "No such package"
        ELSE /\ ret.ok
             /\ ret.val.isLatest
             /\ ret.val = getAll(VersionsOf(name(arg)))[1]
             /\ \A i \in 2..Len(getAll(VersionsOf(name(arg)))) :
                    PairLess(PairOf(getAll(VersionsOf(name(arg)))[i]), PairOf(ret.val))

\* an older record of a stored package was given and the newest came back
C11_Witness ==
    /\ pc = "done"
    /\ op = "getLatest"
    /\ ~arg.isLatest
    /\ \E i \in 1..Len(flattenData(data)) : flattenData(data)[i] = arg
    /\ ret.ok
    /\ ret.val # arg
    /\ ret.val.isLatest

---------------------------------------------------------------------------
(* Not-needed packages: fromRaw on short names, library names and versions, *)
(* with and without the optional and an unexpected key.                     *)

RawNames == Strings({"a", "A"}, MaxRawLen)

AsOfVersions == Strings({"0", "1", "."}, MaxAsOfLen)

RawKeys ==
    {<<"libraryName", "asOfVersion">>,
     <<"libraryName", "asOfVersion", "sourceRepoURL">>,
     <<"libraryName", "asOfVersion", "extra">>,
     <<"libraryName", "extra", "asOfVersion", "sourceRepoURL">>}

RawInputs ==
    {[keys |-> keys, libraryName |-> libraryName, asOfVersion |-> asOfVersion] :
        keys \in RawKeys, libraryName \in RawNames, asOfVersion \in AsOfVersions}

FromRaw ==
    /\ pc = "idle"
    /\ \E packageName \in RawNames, raw \in RawInputs :
          Finish("fromRaw", [name |-> packageName, raw |-> raw], fromRaw(packageName, raw))

\* the packages fromRaw constructs
Constructed ==
    {fromRaw(packageName, raw).val :
        <<packageName, raw>> \in {x \in RawNames \X RawInputs : fromRaw(x[1], x[2]).ok}}

ReadName ==
    /\ pc = "idle"
    /\ \E pkg \in Constructed : Finish("name", pkg, notNeededName(pkg))

ReadLibraryName ==
    /\ pc = "idle"
    /\ \E pkg \in Constructed : Finish("libraryName", pkg, libraryNameOf(pkg))

ReadMajor ==
    /\ pc = "idle"
    /\ \E pkg \in Constructed : Finish("major", pkg, notNeededMajor(pkg))

ReadMinor ==
    /\ pc = "idle"
    /\ \E pkg \in Constructed : Finish("minor", pkg, notNeededMinor(pkg))

ReadIsLatest ==
    /\ pc = "idle"
    /\ \E pkg \in Constructed : Finish("isLatest", pkg, isLatest(pkg))

ReadDeclaredModules ==
    /\ pc = "idle"
    /\ \E pkg \in Constructed : Finish("declaredModules", pkg, declaredModules(pkg))

ReadGlobals ==
    /\ pc = "idle"
    /\ \E pkg \in Constructed : Finish("globals", pkg, globals(pkg))

ReadMinTypeScriptVersion ==
    /\ pc = "idle"
    /\ \E pkg \in Constructed : Finish("minTypeScriptVersion", pkg, minTypeScriptVersion(pkg))

ReadId ==
    /\ pc = "idle"
    /\ \E pkg \in Constructed : Finish("id", pkg, notNeededId(pkg))

InitNotNeeded ==
    /\ data = <<>>
    /\ pc = "idle"
    /\ op = "none"
    /\ arg = <<>>
    /\ ret = NoRet

NextNotNeeded ==
    \/ FromRaw
    \/ ReadName
    \/ ReadLibraryName
    \/ ReadMajor
    \/ ReadMinor
    \/ ReadIsLatest
    \/ ReadDeclaredModules
    \/ ReadGlobals
    \/ ReadMinTypeScriptVersion
    \/ ReadId
    \/ Return

SpecNotNeeded == InitNotNeeded /\ [][NextNotNeeded]_vars

HasUpperCase(s) == \E i \in 1..Len(s) : s[i] \in {"A", "B"}

\* a decimal numeral without a leading zero
Numeral(s) ==
    /\ s # <<>>
    /\ \A i \in 1..Len(s) : s[i] \in {"0", "1", "2", "3", "4", "5", "6", "7", "8", "9"}
    /\ s = <<"0">> \/ s[1] # "0"

\* numeral.numeral.numeral
ThreePart(s) ==
    /\ Count(s, ".") = 2
    /\ \E i, j \in 1..Len(s) :
          /\ i < j
          /\ s[i] = "."
          /\ s[j] = "."
          /\ Numeral(SubSeq(s, 1, i - 1))
          /\ Numeral(SubSeq(s, i + 1, j - 1))
          /\ Numeral(SubSeq(s, j + 1, Len(s)))

\* C9: fromRaw(name, raw) fails with the failure of the first of these that is
\* violated: name all lower-case; no key outside libraryName, sourceRepoURL,
\* asOfVersion; libraryName all lower-case; libraryName, name and asOfVersion
\* not empty; asOfVersion a three-part version. It returns a NotNeededPackage
\* only when none is violated.
C9_ChecksInOrder ==
    (pc = "done" /\ op = "fromRaw") =>
        IF HasUpperCase(arg.name)
        THEN ~ret.ok /\ ret.err = "must use all lower-case letters"
        ELSE IF \E i \in 1..Len(arg.raw.keys) : arg.raw.keys[i] = "extra"
        THEN ~ret.ok /\ ret.err = "Unexpected key in not-needed package"
        ELSE IF HasUpperCase(arg.raw.libraryName)
        THEN ~ret.ok /\ ret.err = "must use a libraryName that is all lower-case letters"
        ELSE IF arg.raw.libraryName = <<>> \/ arg.name = <<>> \/ arg.raw.asOfVersion = <<>>
        THEN ~ret.ok /\ ret.err = "AssertionError"
        ELSE IF ~ThreePart(arg.raw.asOfVersion)
        THEN ~ret.ok /\ ret.err = "Invalid Version"
        ELSE /\ ret.ok
             /\ ret.val.name = arg.name
             /\ ret.val.libraryName = arg.raw.libraryName

\* fromRaw has failed on the name of a package that also has an unexpected
\* key, an upper-case libraryName and a version that is not three-part
C9_Witness ==
    /\ pc = "done"
    /\ op = "fromRaw"
    /\ HasUpperCase(arg.name)
    /\ \E i \in 1..Len(arg.raw.keys) : arg.raw.keys[i] = "extra"
    /\ HasUpperCase(arg.raw.libraryName)
    /\ ~ThreePart(arg.raw.asOfVersion)
    /\ ~ret.ok
    /\ ret.err = "must use all lower-case letters"

\* the accessors of the capability set NotNeededPackage shares with TypingsData
Accessors ==
    {"name", "isLatest", "major", "minor", "declaredModules", "globals",
     "minTypeScriptVersion", "libraryName", "id"}

\* C12 as stated: on every constructed NotNeededPackage each accessor of the
\* common capability set returns a value, isLatest being true and
\* declaredModules and globals both empty.
C12_AsStated ==
    (pc = "done" /\ op \in Accessors) =>
        /\ ret.ok
        /\ op = "isLatest" => ret.val = TRUE
        /\ op \in {"declaredModules", "globals"} => ret.val = <<>>

---------------------------------------------------------------------------
(* The mangler on its own: every short name over "@", "/", "_", "a". *)

MangleAlphabet == {"@", "/", "_", "a"}

MangleNames == Strings(MangleAlphabet, MaxNameLen)

Mangle ==
    /\ pc = "idle"
    /\ \E packageName \in MangleNames :
          Finish("mangle", packageName, Returned(getMangledNameForScopedPackage(packageName)))

InitMangle ==
    /\ data = <<>>
    /\ pc = "idle"
    /\ op = "none"
    /\ arg = <<>>
    /\ ret = NoRet

NextMangle ==
    \/ Mangle
    \/ Return

SpecMangle == InitMangle /\ [][NextMangle]_vars

MangleDone == pc = "done" /\ op = "mangle"

\* the name with its first "/" replaced by "__" and its first character dropped
FirstSlashFolded(s, out) ==
    \E i \in 2..Len(s) :
        /\ s[i] = "/"
        /\ \A j \in 1..(i - 1) : s[j] # "/"
        /\ out = SubSeq(s, 2, i - 1) \o <<"_", "_">> \o SubSeq(s, i + 1, Len(s))

\* C5 as stated: a name is rewritten only if it starts with "@" and holds
\* exactly one "/"; every other name is returned unchanged.
C5_AsStated ==
    MangleDone =>
        IF StartsWith(arg, <<"@">>) /\ Count(arg, "/") = 1
        THEN FirstSlashFolded(arg, ret.val)
        ELSE ret.val = arg

\* C5 as amended: a name is rewritten if and only if it starts with "@" and
\* holds at least one "/"; its first "/" becomes "__" and the leading "@" is
\* dropped, later separators are kept. Every other name is returned unchanged.
C5_Mangle ==
    MangleDone =>
        IF StartsWith(arg, <<"@">>) /\ Count(arg, "/") >= 1
        THEN FirstSlashFolded(arg, ret.val)
        ELSE ret.val = arg

\* a scoped name with two separators has been mangled
C5_Witness ==
    /\ MangleDone
    /\ StartsWith(arg, <<"@">>)
    /\ Count(arg, "/") = 2
    /\ ret.val # arg

\* C6 as stated: mangling is idempotent for every name.
C6_AsStated ==
    MangleDone => getMangledNameForScopedPackage(ret.val) = ret.val

\* C6 as amended: mangling is idempotent for every name that does not both
\* start with "@@" and hold two or more "/".
C6_Idempotent ==
    (MangleDone /\ ~(StartsWith(arg, <<"@", "@">>) /\ Count(arg, "/") >= 2))
        => getMangledNameForScopedPackage(ret.val) = ret.val

\* a scoped name has been rewritten, and mangling the result changes nothing
C6_Witness ==
    /\ MangleDone
    /\ ret.val # arg
    /\ ~StartsWith(arg, <<"@", "@">>)
    /\ getMangledNameForScopedPackage(ret.val) = ret.val

===========================================================================
